---- MODULE Spec2Model ----
(***************************************************************************)
(* State-machine model of src/app.py (SHOWROOM Event Dashboard): the       *)
(* fetch operations, the Streamlit cache decorators around them, the       *)
(* per-room gift log kept in the session state and the point-gap           *)
(* computation of main().  The components do not share state, so each has  *)
(* its own next-state relation and specification over the common Init.     *)
(***************************************************************************)
EXTENDS Integers, Sequences, FiniteSets, TLC

VARIABLES
    gift_log_cache,  \* st.session_state.gift_log_cache: room_id -> list of entries
    gl_room,         \* room_id of the last get_and_update_gift_log call (0: none yet)
    gl_outcome,      \* upstream outcome of that call
    gl_batch,        \* the 'gift_log' list that call received
    gl_ret,          \* the list that call returned
    rk_pc,           \* get_event_ranking_with_room_id: "idle", "page", "accept", "build", "done"
    rk_cand,         \* index of base_url in RANKING_API_CANDIDATES
    rk_page,         \* page of the next request
    rk_temp,         \* temp_ranking_data
    rk_all,          \* all_ranking_data
    rk_result,       \* the returned value
    rk_outcome,      \* outcome of the last request
    rk_hadId,        \* per candidate: a page it served held an entry with a room_id key
    rk_reqs,         \* per candidate: requests issued to it in this call
    rk_source,       \* candidate whose entries all_ranking_data holds (0: none)
    ev_pc,           \* get_events: "idle", "page", "done"
    ev_status,       \* index of status in [1, 4]
    ev_page,         \* page of the next request
    all_events,      \* all_events
    ev_result,       \* the returned list
    ev_outcome,      \* outcome of the last request
    ev_failed,       \* per status: its pagination ended on a failed request
    ev_fetched,      \* every entry of the pages this call decoded, in fetch order
    gp_pc,           \* dashboard block of main(): "idle", "loaded", "done"
    gp_room_map,     \* st.session_state.room_map_data: name -> rank, point
    gp_selected,     \* st.session_state.selected_room_names
    gp_tallying,     \* is_event_ended and not is_closed
    gp_rows,         \* the rows handed to st.dataframe, in display order
    now,             \* the clock, in seconds
    ticks,           \* times the clock has advanced
    st_cache,        \* the st.cache_data stores: slot -> entry
    c_call,          \* the last call of a cached function and what it did
    pl_pc,           \* room loop of main() (lines 520-527): "idle", "loop", "done"
    pl_names,        \* st.session_state.selected_room_names, in list order
    pl_i,            \* index in pl_names of the room the loop is at
    pl_log,          \* the get_room_event_info requests of this cycle, in order
    pl_shown,        \* rooms whose gift section this cycle has rendered
    ol_pc,           \* get_onlives_rooms: "idle", "rooms", "done"
    ol_outcome,      \* outcome of its request
    ol_data,         \* the decoded body
    all_lives,       \* all_lives
    ol_i,            \* index in all_lives of the entry the loop is at
    onlives,         \* onlives: int room_id -> started_at, premium_room_type
    m_now,                      \* the clock of the session, in seconds
    m_ticks,                    \* refresh ticks so far
    m_cache,                    \* st.cache_data store of the resolver: event -> entry
    event_selector,             \* value of the selectbox (key "event_selector")
    select_top_10_checkbox,     \* st.session_state.select_top_10_checkbox
    room_map_data,              \* st.session_state.room_map_data
    selected_event_name,        \* st.session_state.selected_event_name
    selected_room_names,        \* st.session_state.selected_room_names
    multiselect_default_value,  \* st.session_state.multiselect_default_value
    show_dashboard,             \* st.session_state.show_dashboard
    m_rerun,                    \* the last run ended in st.rerun()
    m_end,                      \* where the last run of main() ended
    m_autorefresh,              \* the last run mounted st_autorefresh (line 352)
    m_fetched,                  \* the last run ran the body of the resolver
    raised           \* exception that escaped the last operation ("none": it returned)

vars == <<gift_log_cache, gl_room, gl_outcome, gl_batch, gl_ret,
          rk_pc, rk_cand, rk_page, rk_temp, rk_all, rk_result, rk_outcome,
          rk_hadId, rk_reqs, rk_source,
          ev_pc, ev_status, ev_page, all_events, ev_result, ev_outcome, ev_failed,
          ev_fetched,
          gp_pc, gp_room_map, gp_selected, gp_tallying, gp_rows,
          now, ticks, st_cache, c_call,
          pl_pc, pl_names, pl_i, pl_log, pl_shown,
          ol_pc, ol_outcome, ol_data, all_lives, ol_i, onlives,
          m_now, m_ticks, m_cache, event_selector, select_top_10_checkbox,
          room_map_data, selected_event_name, selected_room_names,
          multiselect_default_value, show_dashboard, m_rerun, m_end,
          m_autorefresh, m_fetched,
          raised>>

mainVars == <<m_now, m_ticks, m_cache, event_selector, select_top_10_checkbox,
              room_map_data, selected_event_name, selected_room_names,
              multiselect_default_value, show_dashboard, m_rerun, m_end,
              m_autorefresh, m_fetched>>

onlivesVars == <<ol_pc, ol_outcome, ol_data, all_lives, ol_i, onlives>>

pollVars == <<pl_pc, pl_names, pl_i, pl_log, pl_shown>>

cacheVars == <<now, ticks, st_cache, c_call>>

gapVars == <<gp_pc, gp_room_map, gp_selected, gp_tallying, gp_rows>>

eventVars == <<ev_pc, ev_status, ev_page, all_events, ev_result, ev_outcome, ev_failed,
               ev_fetched>>

rankVars == <<rk_pc, rk_cand, rk_page, rk_temp, rk_all, rk_result, rk_outcome,
              rk_hadId, rk_reqs, rk_source>>

giftVars == <<gift_log_cache, gl_room, gl_outcome, gl_batch, gl_ret>>

\* ------------------------------------------------------------------ bounds
MaxBatch == 2      \* entries in one gift_log response
MaxHist == 3       \* entries the histories of all rooms may hold together
MaxPages == 2      \* the max_pages argument of get_event_ranking_with_room_id
MaxEventPages == 2 \* pages get_events asks for per status (10 in the code)
MaxRank == 4       \* worst rank a room of the room map may hold
MaxTicks == 2      \* times the clock advances
MaxSelected == 2   \* rooms in selected_room_names when the room loop runs
MaxGroups == 2     \* genre groups in the 'onlives' list of one response

\* ----------------------------------------------------------------- helpers
BoundedSeq(S, n) == UNION {[1..k -> S] : k \in 0..n}

\* Which exception class response.json() raises on an undecodable body depends
\* on the installed requests: JSONDecodeError derives from RequestException
\* since requests 2.27, and is a bare ValueError before.
JsonErrorClasses == {"RequestException", "ValueError"}

\* ------------------------------------------------------------ gift log
Rooms == {1, 2}

\* The entries the upstream may report: A and B at two successive seconds and
\* D, another gift sent in the same second as B.
GiftLogEntry ==
    {[gift_id |-> 1, created_at |-> 1, num |-> 1],
     [gift_id |-> 1, created_at |-> 2, num |-> 1],
     [gift_id |-> 2, created_at |-> 2, num |-> 1]}

GiftLogOutcomes == {"ok", "transport", "nonjson", "json_array"}

\* (log.get('gift_id'), log.get('created_at'), log.get('num'))
LogKey(log) == <<log.gift_id, log.created_at, log.num>>

\* {key(log) for log in existing_log}, built once before the loop
ExistingLogSet(existing_log) == {LogKey(existing_log[i]) : i \in DOMAIN existing_log}

RECURSIVE AppendAll(_, _, _)
\* the loop without its membership test: every fetched entry is appended
AppendAll(existing_log, existing_log_set, new_gift_log) ==
    IF new_gift_log = <<>> THEN existing_log
    ELSE AppendAll(Append(existing_log, Head(new_gift_log)), existing_log_set,
                   Tail(new_gift_log))

RECURSIVE AppendNew(_, _, _)
\* for log in new_gift_log: if log_key not in existing_log_set: existing_log.append(log)
\* (the set is the one built before the loop; the loop never adds to it)
AppendNew(existing_log, existing_log_set, new_gift_log) ==
    IF new_gift_log = <<>> THEN existing_log
    ELSE LET log == Head(new_gift_log)
         IN AppendNew(IF LogKey(log) \in existing_log_set
                         THEN existing_log
                         ELSE Append(existing_log, log),
                      existing_log_set, Tail(new_gift_log))

\* a sort that leaves the list as it is
KeepOrder(log) == log

RECURSIVE InsertDesc(_, _)
\* stable insertion: x goes after every element whose key is >= its own
InsertDesc(sorted, x) ==
    IF sorted = <<>> THEN <<x>>
    ELSE IF Head(sorted).created_at >= x.created_at
         THEN <<Head(sorted)>> \o InsertDesc(Tail(sorted), x)
         ELSE <<x>> \o sorted

RECURSIVE SortByCreatedAtDesc(_)
\* list.sort(key=created_at, reverse=True): stable, entries with equal keys keep
\* their order
SortByCreatedAtDesc(log) ==
    IF log = <<>> THEN <<>>
    ELSE InsertDesc(SortByCreatedAtDesc(SubSeq(log, 1, Len(log) - 1)), log[Len(log)])

\* a body that stores the fresh batch in place of the history
ReplaceByBatch(existing_log, new_gift_log) == SortByCreatedAtDesc(new_gift_log)

\* the body of get_and_update_gift_log after a decoded response
MergeNewGifts(existing_log, new_gift_log) ==
    SortByCreatedAtDesc(
        IF new_gift_log # <<>>
        THEN AppendNew(existing_log, ExistingLogSet(existing_log), new_gift_log)
        ELSE existing_log)

\* st.session_state.gift_log_cache.get(room_id, [])
CacheGet(room_id) ==
    IF room_id \in DOMAIN gift_log_cache THEN gift_log_cache[room_id] ELSE <<>>

\* entries held by all the rooms of a gift_log_cache value
TotalLen(cache) ==
    LET RECURSIVE Sum(_)
        Sum(rooms) ==
            IF rooms = {} THEN 0
            ELSE LET r == CHOOSE x \in rooms : TRUE
                 IN Len(cache[r]) + Sum(rooms \ {r})
    IN Sum(DOMAIN cache)

\* entries of a batch that a merge into existing_log appends
NewCount(existing_log, new_gift_log) ==
    Cardinality({i \in DOMAIN new_gift_log :
                    LogKey(new_gift_log[i]) \notin ExistingLogSet(existing_log)})

GetAndUpdateGiftLog(room_id, outcome, new_gift_log, json_error) ==
    /\ gl_room' = room_id
    /\ gl_outcome' = outcome
    /\ gl_batch' = new_gift_log
    /\ UNCHANGED <<rankVars, eventVars, gapVars, cacheVars, pollVars, onlivesVars, mainVars>>
    /\ \/ /\ outcome = "ok"
          /\ TotalLen(gift_log_cache) + NewCount(CacheGet(room_id), new_gift_log) <= MaxHist
          /\ LET merged == MergeNewGifts(CacheGet(room_id), new_gift_log)
             IN /\ gift_log_cache' =
                      [r \in DOMAIN gift_log_cache \cup {room_id} |->
                          IF r = room_id THEN merged ELSE gift_log_cache[r]]
                /\ gl_ret' = merged
          /\ raised' = "none"
       \/ /\ \/ outcome = "transport"
             \/ outcome = "nonjson" /\ json_error = "RequestException"
          /\ new_gift_log = <<>>
          /\ gl_ret' = CacheGet(room_id)
          /\ raised' = "none"
          /\ UNCHANGED gift_log_cache
       \/ /\ outcome = "nonjson" /\ json_error = "ValueError"
          /\ new_gift_log = <<>>
          /\ raised' = "ValueError"
          /\ UNCHANGED <<gift_log_cache, gl_ret>>
       \/ /\ outcome = "json_array"
          /\ new_gift_log = <<>>
          /\ raised' = "AttributeError"
          /\ UNCHANGED <<gift_log_cache, gl_ret>>

\* the 'gift_log' lists a response may hold
GiftLogBatches == BoundedSeq(GiftLogEntry, MaxBatch)

\* a call with some room and some upstream answer: a decoded gift_log list, or
\* one of the failures
GiftLogCall ==
    \/ \E room_id \in Rooms, new_gift_log \in GiftLogBatches :
          GetAndUpdateGiftLog(room_id, "ok", new_gift_log, "RequestException")
    \/ \E room_id \in Rooms, outcome \in GiftLogOutcomes \ {"ok"},
          json_error \in JsonErrorClasses :
          GetAndUpdateGiftLog(room_id, outcome, <<>>, json_error)

\* ------------------------------------------------- ranking resolver
\* RANKING_API_CANDIDATES: the url_key template, then the event_id template
NumCandidates == 2
Candidates == 1..NumCandidates

\* room_id of an entry that has no 'room_id' key
NoKey == -1

\* Ranking entries the upstream may serve.  room_id NoKey: the key is missing;
\* 0: the key is there with a null or zero value; "": the name is missing.
RankA == [room_id |-> 1, room_name |-> "A", user_name |-> "", rank |-> 1, point |-> 300]
RankB == [room_id |-> 2, room_name |-> "B", user_name |-> "", rank |-> 2, point |-> 200]
RankNoId == [room_id |-> NoKey, room_name |-> "A", user_name |-> "", rank |-> 1, point |-> 300]
RankNullId == [room_id |-> 0, room_name |-> "C", user_name |-> "", rank |-> 3, point |-> 150]
RankUserA == [room_id |-> 3, room_name |-> "", user_name |-> "A", rank |-> 3, point |-> 150]
RankNoName == [room_id |-> 4, room_name |-> "", user_name |-> "", rank |-> 4, point |-> 100]

\* The ranking_list of a decoded page ("ranking", "event_list" or a bare list).
RankPages ==
    {<<>>, <<RankA>>, <<RankB>>, <<RankNoId>>, <<RankNullId>>, <<RankUserA>>,
     <<RankNoName>>, <<RankA, RankB>>, <<RankNoId, RankB>>}

\* "ok": 200 with a decodable body of a known shape; "schema": 200 with JSON of
\* no known shape (ranking_list stays None); "404"; "transport": connection
\* error, timeout or another HTTP error status; "nonjson": undecodable body.
RankOutcomes == {"ok", "schema", "404", "transport", "nonjson"}

\* outcomes on which the page loop is left by break with no entries added:
\* ranking_list stays None, or the status is 404 (line 89)
BreakOutcomes == {"schema", "404"}

\* a 404 that raise_for_status turns into an HTTPError like any other status
RaiseOutcomesWith404 == {"transport", "404"}

\* outcomes on which requests.get or raise_for_status raises RequestException
RaiseOutcomes == {"transport"}

\* 'room_id' in r
HasRoomIdKey(r) == r.room_id # NoKey

\* any('room_id' in r for r in temp_ranking_data)
AnyRoomId(data) == \E i \in DOMAIN data : HasRoomIdKey(data[i])

\* the acceptance test without the identifier check: any non-empty accumulation
AcceptsNonEmpty(temp_ranking_data) == temp_ranking_data # <<>>

\* if temp_ranking_data and any('room_id' in r for r in temp_ranking_data)
Accepts(temp_ranking_data) ==
    temp_ranking_data # <<>> /\ AnyRoomId(temp_ranking_data)

\* room_info.get('room_name') or room_info.get('user_name')
NameOf(room_info) ==
    IF room_info.room_name # "" THEN room_info.room_name ELSE room_info.user_name

\* if room_id and room_name
Usable(room_info) ==
    /\ room_info.room_id # NoKey
    /\ room_info.room_id # 0
    /\ NameOf(room_info) # ""

RECURSIVE BuildRoomMapKeepFirst(_, _)
\* a reduction in which a name that is already a key keeps its first entry
BuildRoomMapKeepFirst(room_map, data) ==
    IF data = <<>> THEN room_map
    ELSE LET room_info == Head(data)
             entry == [room_id |-> room_info.room_id, rank |-> room_info.rank,
                       point |-> room_info.point]
         IN BuildRoomMapKeepFirst(
                IF room_info.room_id \notin {NoKey, 0} /\ NameOf(room_info) # ""
                   /\ NameOf(room_info) \notin DOMAIN room_map
                THEN [n \in DOMAIN room_map \cup {NameOf(room_info)} |->
                         IF n = NameOf(room_info) THEN entry ELSE room_map[n]]
                ELSE room_map,
                Tail(data))

RECURSIVE BuildRoomMap(_, _)
\* for room_info in all_ranking_data: room_map[room_name] = {...}
BuildRoomMap(room_map, data) ==
    IF data = <<>> THEN room_map
    ELSE LET room_info == Head(data)
             entry == [room_id |-> room_info.room_id, rank |-> room_info.rank,
                       point |-> room_info.point]
         IN BuildRoomMap(
                IF Usable(room_info)
                THEN [n \in DOMAIN room_map \cup {NameOf(room_info)} |->
                         IF n = NameOf(room_info) THEN entry ELSE room_map[n]]
                ELSE room_map,
                Tail(data))

NoResult == [kind |-> "unset", room_map |-> <<>>]
NoneResult == [kind |-> "None", room_map |-> <<>>]

\* a result built without the test for an empty all_ranking_data
ResultOfAlwaysMap(all_ranking_data) ==
    [kind |-> "map", room_map |-> BuildRoomMap(<<>>, all_ranking_data)]

\* if not all_ranking_data: return None ... return room_map
ResultOf(all_ranking_data) ==
    IF all_ranking_data = <<>> THEN NoneResult
    ELSE [kind |-> "map", room_map |-> BuildRoomMap(<<>>, all_ranking_data)]

\* the call starts: all_ranking_data = [], first base_url, temp_ranking_data = []
RkCall ==
    /\ rk_pc \in {"idle", "done"}
    /\ rk_pc' = "page"
    /\ rk_cand' = 1
    /\ rk_page' = 1
    /\ rk_temp' = <<>>
    /\ rk_all' = <<>>
    /\ rk_result' = NoResult
    /\ rk_outcome' = "none"
    /\ rk_hadId' = [c \in Candidates |-> FALSE]
    /\ rk_reqs' = [c \in Candidates |-> 0]
    /\ rk_source' = 0
    /\ raised' = "none"
    /\ UNCHANGED <<giftVars, eventVars, gapVars, cacheVars, pollVars, onlivesVars, mainVars>>

\* except RequestException: continue -- the next base_url, with a fresh
\* temp_ranking_data, or the end of the candidate loop
RkNextCandidate ==
    /\ rk_temp' = <<>>
    /\ rk_page' = 1
    /\ IF rk_cand < NumCandidates
       THEN rk_cand' = rk_cand + 1 /\ rk_pc' = "page"
       ELSE rk_cand' = rk_cand /\ rk_pc' = "build"

\* one iteration of the page loop: the request and what the body does with it
RkPage(outcome, ranking_list, json_error) ==
    /\ rk_pc = "page"
    /\ rk_outcome' = outcome
    /\ rk_reqs' = [rk_reqs EXCEPT ![rk_cand] = @ + 1]
    /\ UNCHANGED <<rk_all, rk_result, rk_source, giftVars, eventVars, gapVars, cacheVars, pollVars, onlivesVars, mainVars>>
    /\ \/ /\ outcome = "ok"
          /\ ranking_list # <<>>
          /\ rk_temp' = rk_temp \o ranking_list
          /\ rk_hadId' = [rk_hadId EXCEPT ![rk_cand] = @ \/ AnyRoomId(ranking_list)]
          /\ rk_page' = rk_page + 1
          /\ rk_pc' = IF rk_page < MaxPages THEN "page" ELSE "accept"
          /\ UNCHANGED <<rk_cand, raised>>
       \/ /\ \/ outcome = "ok" /\ ranking_list = <<>>
             \/ outcome \in BreakOutcomes /\ ranking_list = <<>>
          /\ rk_pc' = "accept"
          /\ UNCHANGED <<rk_temp, rk_hadId, rk_page, rk_cand, raised>>
       \/ /\ \/ outcome \in RaiseOutcomes
             \/ outcome = "nonjson" /\ json_error = "RequestException"
          /\ ranking_list = <<>>
          /\ RkNextCandidate
          /\ UNCHANGED <<rk_hadId, raised>>
       \/ /\ outcome = "nonjson" /\ json_error = "ValueError"
          /\ ranking_list = <<>>
          /\ raised' = "ValueError"
          /\ rk_pc' = "done"
          /\ UNCHANGED <<rk_temp, rk_hadId, rk_page, rk_cand>>

RkFetchPage ==
    \E outcome \in RankOutcomes, ranking_list \in RankPages,
       json_error \in JsonErrorClasses :
        RkPage(outcome, ranking_list, json_error)

\* after the page loop of one candidate: accept its entries and leave the
\* candidate loop, or go on to the next candidate
RkAccept ==
    /\ rk_pc = "accept"
    /\ UNCHANGED <<rk_result, rk_outcome, rk_hadId, rk_reqs, raised, giftVars, eventVars, gapVars, cacheVars, pollVars, onlivesVars, mainVars>>
    /\ IF Accepts(rk_temp)
       THEN /\ rk_all' = rk_temp
            /\ rk_source' = rk_cand
            /\ rk_pc' = "build"
            /\ UNCHANGED <<rk_temp, rk_page, rk_cand>>
       ELSE /\ RkNextCandidate
            /\ UNCHANGED <<rk_all, rk_source>>

\* after the candidate loop: None, or the room map of the accepted entries
RkBuild ==
    /\ rk_pc = "build"
    /\ rk_result' = ResultOf(rk_all)
    /\ rk_pc' = "done"
    /\ UNCHANGED <<rk_cand, rk_page, rk_temp, rk_all, rk_outcome, rk_hadId,
                   rk_reqs, rk_source, raised, giftVars, eventVars, gapVars, cacheVars, pollVars, onlivesVars, mainVars>>

RankInit ==
    /\ rk_pc = "idle"
    /\ rk_cand = 1
    /\ rk_page = 1
    /\ rk_temp = <<>>
    /\ rk_all = <<>>
    /\ rk_result = NoResult
    /\ rk_outcome = "none"
    /\ rk_hadId = [c \in Candidates |-> FALSE]
    /\ rk_reqs = [c \in Candidates |-> 0]
    /\ rk_source = 0

\* ------------------------------------------------------ event catalog
\* for status in [1, 4]: ongoing, then ended
Statuses == <<1, 4>>

\* Events the upstream may serve.  "missing": the key is not in the entry;
\* event_name is the name as a sequence of parts, <<>> when the key is missing.
EvShown == [event_id |-> 1, show_ranking |-> "true", is_event_block |-> "false",
            event_name |-> <<"E1">>]
EvHidden == [event_id |-> 2, show_ranking |-> "false", is_event_block |-> "false",
             event_name |-> <<"E2">>]
EvBlock == [event_id |-> 3, show_ranking |-> "true", is_event_block |-> "true",
            event_name |-> <<"E3">>]
EvBare == [event_id |-> 4, show_ranking |-> "missing", is_event_block |-> "missing",
           event_name |-> <<"E4">>]
EvNoName == [event_id |-> 5, show_ranking |-> "true", is_event_block |-> "false",
             event_name |-> <<>>]

\* page_events of a decoded page ("events", "event_list" or a bare list)
EventPages ==
    {<<>>, <<EvShown>>, <<EvHidden>>, <<EvBlock>>, <<EvBare>>, <<EvNoName>>,
     <<EvHidden, EvShown>>, <<EvBare, EvBlock>>}

\* "ok": 200 with a decodable body of a known shape; "schema": 200 with JSON of
\* no known shape (page_events stays []); "http": an error status, 404 included
\* (raise_for_status); "transport": connection error or timeout; "nonjson":
\* undecodable body.
EventOutcomes == {"ok", "schema", "http", "transport", "nonjson"}

\* a filter that looks at show_ranking only
ListedByShowRanking(event) == event.show_ranking # "false"

\* event.get("show_ranking") is not False and event.get("is_event_block") is not True
Listed(event) == event.show_ranking # "false" /\ event.is_event_block # "true"

\* [event for event in page_events if ...]
FilterEvents(page_events) == SelectSeq(page_events, Listed)

\* event['event_name'] = f"<ended> {event['event_name']}"
Prefixed(event) == [event EXCEPT !.event_name = <<"ENDED">> \o @]

\* the entries one page adds to all_events
PageContribution(status, page_events) ==
    LET filtered == FilterEvents(page_events)
    IN IF Statuses[status] = 4
       THEN [i \in DOMAIN filtered |-> Prefixed(filtered[i])]
       ELSE filtered

\* event['event_name'] of an entry without that key, read for the prefix
PrefixRaises(status, page_events) ==
    /\ Statuses[status] = 4
    /\ \E i \in DOMAIN page_events :
          Listed(page_events[i]) /\ page_events[i].event_name = <<>>

\* a break that leaves the loop over the statuses too
EvAbortAll ==
    /\ ev_pc' = "done"
    /\ ev_result' = all_events
    /\ UNCHANGED <<ev_status, ev_page>>

\* break: the page loop of this status ends; the next status starts at page 1,
\* and after the last status the function returns all_events
EvBreak ==
    IF ev_status < Len(Statuses)
    THEN /\ ev_status' = ev_status + 1
         /\ ev_page' = 1
         /\ ev_pc' = "page"
         /\ UNCHANGED ev_result
    ELSE /\ ev_pc' = "done"
         /\ ev_result' = all_events'
         /\ UNCHANGED <<ev_status, ev_page>>

\* get_events() is called: all_events = [], status 1, page 1
EvCall ==
    /\ ev_pc \in {"idle", "done"}
    /\ ev_pc' = "page"
    /\ ev_status' = 1
    /\ ev_page' = 1
    /\ all_events' = <<>>
    /\ ev_result' = <<>>
    /\ ev_outcome' = "none"
    /\ ev_failed' = [st \in DOMAIN Statuses |-> FALSE]
    /\ ev_fetched' = <<>>
    /\ raised' = "none"
    /\ UNCHANGED <<giftVars, rankVars, gapVars, cacheVars, pollVars, onlivesVars, mainVars>>

\* one iteration of the page loop
EvPage(outcome, page_events) ==
    /\ ev_pc = "page"
    /\ ev_outcome' = outcome
    /\ ev_fetched' = ev_fetched \o page_events
    /\ UNCHANGED <<giftVars, rankVars, gapVars, cacheVars, pollVars, onlivesVars, mainVars>>
    /\ \/ /\ outcome = "ok"
          /\ page_events # <<>>
          /\ ~PrefixRaises(ev_status, page_events)
          /\ all_events' = all_events \o PageContribution(ev_status, page_events)
          /\ IF ev_page < MaxEventPages
             THEN /\ ev_page' = ev_page + 1
                  /\ UNCHANGED <<ev_pc, ev_status, ev_result>>
             ELSE EvBreak
          /\ UNCHANGED <<ev_failed, raised>>
       \/ /\ outcome = "ok"
          /\ PrefixRaises(ev_status, page_events)
          /\ raised' = "KeyError"
          /\ ev_pc' = "done"
          /\ UNCHANGED <<all_events, ev_status, ev_page, ev_result, ev_failed>>
       \/ /\ \/ outcome = "ok" /\ page_events = <<>>
             \/ outcome = "schema" /\ page_events = <<>>
          /\ all_events' = all_events
          /\ EvBreak
          /\ UNCHANGED <<ev_failed, raised>>
       \/ /\ outcome \in {"http", "transport", "nonjson"}
          /\ page_events = <<>>
          /\ all_events' = all_events
          /\ ev_failed' = [ev_failed EXCEPT ![ev_status] = TRUE]
          /\ EvBreak
          /\ UNCHANGED raised

EvFetchPage ==
    \E outcome \in EventOutcomes, page_events \in EventPages :
        EvPage(outcome, page_events)

EventInit ==
    /\ ev_pc = "idle"
    /\ ev_status = 1
    /\ ev_page = 1
    /\ all_events = <<>>
    /\ ev_result = <<>>
    /\ ev_outcome = "none"
    /\ ev_failed = [st \in DOMAIN Statuses |-> FALSE]
    /\ ev_fetched = <<>>

\* ------------------------------------------------- point gaps (main)
\* The block of main() that derives the comparison rows from the session's
\* room map and selection: lines 365-390 and 452-478.  is_event_ended and
\* is_closed are inputs of the block.
GapNames == {"A", "B", "C"}
PointValues == {150, 200, 300}

\* room maps with each room at a rank of its own
GapRoomMaps ==
    UNION {{m \in [names -> [rank : 1..MaxRank, point : PointValues]] :
               \A a, b \in names : a # b => m[a].rank # m[b].rank} :
           names \in SUBSET GapNames \ {{}}}

Abs(x) == IF x < 0 THEN -x ELSE x

\* a cell of a gap column: a number, NaN (the end of a diff) or the text 'N/A'
Num(x) == [kind |-> "num", v |-> x]
NaN == [kind |-> "nan", v |-> 0]
NA == [kind |-> "N/A", v |-> 0]
NoColumn == [kind |-> "none", v |-> 0]

RECURSIVE SortByRank(_, _)
\* df.sort_values(by=rank, ascending=True): the names in ascending rank order
SortByRank(room_map, names) ==
    IF names = {} THEN <<>>
    ELSE LET best == CHOOSE n \in names : \A o \in names : room_map[n].rank <= room_map[o].rank
         IN <<best>> \o SortByRank(room_map, names \ {best})

\* df_sorted[rank].max()
MaxRankOf(room_map) ==
    CHOOSE r \in {room_map[n].rank : n \in DOMAIN room_map} :
        \A n \in DOMAIN room_map : room_map[n].rank <= r

\* df_sorted[upper] = point.diff(periods=-1).abs(), then 'N/A' where rank == 1
UpperGap(room_map, order, i) ==
    IF room_map[order[i]].rank = 1 THEN NA
    ELSE IF i < Len(order)
         THEN Num(Abs(room_map[order[i]].point - room_map[order[i + 1]].point))
         ELSE NaN

\* df_sorted[lower] = point.diff(periods=1).abs(), then 'N/A' where rank == max
LowerGap(room_map, order, i) ==
    IF room_map[order[i]].rank = MaxRankOf(room_map) THEN NA
    ELSE IF i > 1
         THEN Num(Abs(room_map[order[i]].point - room_map[order[i - 1]].point))
         ELSE NaN

\* the gap columns exist only if len(selected_room_names) > 1
WithGaps(selected) == Cardinality(selected) > 1

\* df[df[name].isin(selected_room_names)][display_cols]
DisplayRows(room_map, selected) ==
    LET order == SortByRank(room_map, DOMAIN room_map)
        row(i) == [name |-> order[i],
                   rank |-> room_map[order[i]].rank,
                   point |-> room_map[order[i]].point,
                   upper |-> IF WithGaps(selected) THEN UpperGap(room_map, order, i)
                             ELSE NoColumn,
                   lower |-> IF WithGaps(selected) THEN LowerGap(room_map, order, i)
                             ELSE NoColumn]
        all == [i \in DOMAIN order |-> row(i)]
    IN SelectSeq(all, LAMBDA r : r.name \in selected)

\* the point cell of every row once df[point] = '集計中' has replaced the column
TallyingMark == -1

\* df[point] = '集計中' (line 372): every row shows the marker for its points
MarkTallying(rows) == [i \in DOMAIN rows |-> [rows[i] EXCEPT !.point = TallyingMark]]

\* (df_selected_rooms[point] == '集計中').any(): the info of line 462 is shown in
\* place of the point graph
TallyingNotice(rows) == \E i \in DOMAIN rows : rows[i].point = TallyingMark

\* a run of main() arrives at the dashboard with this session state
GpLoad ==
    /\ gp_pc = "idle"
    /\ \E room_map \in GapRoomMaps, tallying \in BOOLEAN :
         \E selected \in SUBSET (DOMAIN room_map) \ {{}} :
            /\ gp_room_map' = room_map
            /\ gp_selected' = selected
            /\ gp_tallying' = tallying
    /\ gp_pc' = "loaded"
    /\ gp_rows' = <<>>
    /\ raised' = "none"
    /\ UNCHANGED <<giftVars, rankVars, eventVars, cacheVars, pollVars, onlivesVars, mainVars>>

\* lines 365-390 and 452-478: with the points replaced by the text of the
\* tallying marker, diff() subtracts strings and raises
GpCompute ==
    /\ gp_pc = "loaded"
    /\ gp_pc' = "done"
    /\ UNCHANGED <<gp_room_map, gp_selected, gp_tallying, giftVars, rankVars, eventVars, cacheVars, pollVars, onlivesVars, mainVars>>
    /\ IF gp_tallying /\ WithGaps(gp_selected)
       THEN raised' = "TypeError" /\ UNCHANGED gp_rows
       ELSE /\ raised' = "none"
            /\ gp_rows' = IF gp_tallying
                          THEN MarkTallying(DisplayRows(gp_room_map, gp_selected))
                          ELSE DisplayRows(gp_room_map, gp_selected)

GapInit ==
    /\ gp_pc = "idle"
    /\ gp_room_map = <<>>
    /\ gp_selected = {}
    /\ gp_tallying = FALSE
    /\ gp_rows = <<>>

\* ------------------------------------------------- st.cache_data
\* @st.cache_data(ttl=...) of the three cached functions
TtlGetEvents == 3600
TtlGetEventRanking == 300
TtlGetGiftList == 30

CachedFunctions == {"get_events", "get_event_ranking_with_room_id", "get_gift_list"}

Ttl(f) ==
    CASE f = "get_events" -> TtlGetEvents
      [] f = "get_event_ranking_with_room_id" -> TtlGetEventRanking
      [] f = "get_gift_list" -> TtlGetGiftList

\* A slot is a function with the arguments of the call: get_events takes none,
\* the ranking is keyed by the event, the gift list by the room.  One event and
\* one room stand for the keys.
CacheSlots ==
    {<<"get_events", 0>>, <<"get_event_ranking_with_room_id", 1>>,
     <<"get_gift_list", 1>>}

\* how the function body ends: "ok" with the data the upstream holds at that
\* moment, "fail" (a request error the body handles), "raise" (an exception the
\* body does not handle)
BodyOutcomes == {"ok", "fail", "raise"}

\* the upstream's data as of second t
Data(t) == [kind |-> "data", v |-> t]

\* what the body returns after a handled failure: get_events the (empty)
\* all_events, the ranking resolver None, get_gift_list {}
FailureValue(f) ==
    CASE f = "get_events" -> [kind |-> "[]", v |-> 0]
      [] f = "get_event_ranking_with_room_id" -> [kind |-> "None", v |-> 0]
      [] f = "get_gift_list" -> [kind |-> "{}", v |-> 0]

NoValue == [kind |-> "nothing", v |-> 0]

\* the value the function body returns
BodyReturn(f, outcome, t) == IF outcome = "ok" THEN Data(t) ELSE FailureValue(f)

NoEntry == [present |-> FALSE, value |-> NoValue, fetched_at |-> 0]

\* an entry that is still served when its age equals the ttl
FreshInclusive(entry, ttl, t) == entry.present /\ t - entry.fetched_at <= ttl

\* an entry is served while its age is below the ttl
Fresh(entry, ttl, t) == entry.present /\ t - entry.fetched_at < ttl

\* age of an entry at second t (-1: there is none)
AgeOf(entry, t) == IF entry.present THEN t - entry.fetched_at ELSE -1

\* a call of a cached function: the stored value while the entry is fresh,
\* else the body runs and what it returns is stored and returned; an exception
\* of the body passes through and nothing is stored
CachedCall(slot, outcome) ==
    LET f == slot[1]
        entry == st_cache[slot]
    IN /\ UNCHANGED <<now, ticks, giftVars, rankVars, eventVars, gapVars, pollVars, onlivesVars, mainVars>>
       /\ IF Fresh(entry, Ttl(f), now)
          THEN /\ outcome = "ok"
               /\ c_call' = [slot |-> slot, invoked |-> FALSE, outcome |-> "none",
                             age |-> AgeOf(entry, now), ret |-> entry.value]
               /\ raised' = "none"
               /\ UNCHANGED st_cache
          ELSE IF outcome = "raise"
          THEN /\ c_call' = [slot |-> slot, invoked |-> TRUE, outcome |-> outcome,
                             age |-> AgeOf(entry, now), ret |-> NoValue]
               /\ raised' = "Exception"
               /\ UNCHANGED st_cache
          ELSE /\ c_call' = [slot |-> slot, invoked |-> TRUE, outcome |-> outcome,
                             age |-> AgeOf(entry, now), ret |-> BodyReturn(f, outcome, now)]
               /\ st_cache' = [st_cache EXCEPT ![slot] =
                                  [present |-> TRUE, value |-> BodyReturn(f, outcome, now),
                                   fetched_at |-> now]]
               /\ raised' = "none"

CacheCall ==
    \E slot \in CacheSlots, outcome \in BodyOutcomes : CachedCall(slot, outcome)

\* time passes between two runs of the script
Delays == {1, 29, 31, 270, 3570}

Tick ==
    /\ ticks < MaxTicks
    /\ \E d \in Delays : now' = now + d
    /\ ticks' = ticks + 1
    /\ UNCHANGED <<st_cache, c_call, raised, giftVars, rankVars, eventVars, gapVars, pollVars, onlivesVars, mainVars>>

CacheInit ==
    /\ now = 0
    /\ ticks = 0
    /\ st_cache = [slot \in CacheSlots |-> NoEntry]
    /\ c_call = [slot |-> <<"none", 0>>, invoked |-> FALSE, outcome |-> "none",
                 age |-> -1, ret |-> NoValue]

\* ------------------------------------------- room loop (main)
\* Lines 519-527 of main(): one get_room_event_info request per selected room.
\* The room map is the resolver's, so every room of it has a non-zero room_id
\* (line 114) and the test of line 522 passes for each.
PollRoomMap == [n \in {"A", "B", "C"} |-> [room_id |-> IF n = "A" THEN 1 ELSE IF n = "B" THEN 2 ELSE 3]]

\* the selections the form can store: distinct names of the room map
PollSelections ==
    {sel \in BoundedSeq(DOMAIN PollRoomMap, MaxSelected) :
        /\ sel # <<>>
        /\ \A i, j \in DOMAIN sel : i # j => sel[i] # sel[j]}

\* What the request of get_room_event_info meets.  "live": 200 with an object
\* whose room_is_live and live_id are set; "offline": 200 with another object;
\* "transport": connection error, timeout or error status; "nonjson":
\* undecodable body; "json_array": 200 with a non-empty JSON array.  The
\* function catches RequestException and returns None (lines 128-131).
PollOutcomes == {"live", "offline", "transport", "nonjson", "json_array"}

\* the exception that leaves the loop body: response.json() of an undecodable
\* body where JSONDecodeError is a bare ValueError (line 127), or
\* event_info.get on a list (line 524)
PollRaises(outcome, json_error) ==
    \/ outcome = "nonjson" /\ json_error = "ValueError"
    \/ outcome = "json_array"

\* the refresh cycle reaches the loop with this selection
PlStart ==
    /\ pl_pc \in {"idle", "done"}
    /\ \E sel \in PollSelections : pl_names' = sel
    /\ pl_pc' = "loop"
    /\ pl_i' = 1
    /\ pl_log' = <<>>
    /\ pl_shown' = {}
    /\ raised' = "none"
    /\ UNCHANGED <<giftVars, rankVars, eventVars, gapVars, cacheVars, onlivesVars, mainVars>>

\* one iteration: the request for pl_names[pl_i] and the test of line 524
PlRoom(outcome, json_error) ==
    LET room_name == pl_names[pl_i]
        room_id == PollRoomMap[room_name].room_id
    IN /\ pl_pc = "loop"
       /\ pl_log' = Append(pl_log, [room_id |-> room_id, outcome |-> outcome])
       /\ UNCHANGED <<pl_names, giftVars, rankVars, eventVars, gapVars, cacheVars, onlivesVars, mainVars>>
       /\ IF PollRaises(outcome, json_error)
          THEN /\ raised' = IF outcome = "json_array" THEN "AttributeError" ELSE "ValueError"
               /\ pl_pc' = "done"
               /\ UNCHANGED <<pl_i, pl_shown>>
          ELSE /\ raised' = "none"
               /\ pl_shown' = IF outcome = "live" THEN pl_shown \cup {room_name} ELSE pl_shown
               /\ pl_i' = pl_i + 1
               /\ pl_pc' = IF pl_i < Len(pl_names) THEN "loop" ELSE "done"

PlFetch ==
    \E outcome \in PollOutcomes, json_error \in JsonErrorClasses :
        PlRoom(outcome, json_error)

PollInit ==
    /\ pl_pc = "idle"
    /\ pl_names = <<>>
    /\ pl_i = 1
    /\ pl_log = <<>>
    /\ pl_shown = {}

\* ------------------------------------------------- live status index
\* A value read with .get(): None, an int, a string of digits (v is the number
\* it spells) or another string.
None == [k |-> "none", v |-> 0]
IntV(n) == [k |-> "int", v |-> n]
NumStr(n) == [k |-> "numstr", v |-> n]
Str == [k |-> "str", v |-> 0]

\* a nested object that is not there (or is not a dict)
NoObj == [is_dict |-> FALSE, room_id |-> None, started_at |-> None,
          premium_room_type |-> None]
Obj(room_id, started_at) ==
    [is_dict |-> TRUE, room_id |-> room_id, started_at |-> started_at,
     premium_room_type |-> IntV(1)]

\* an entry of a lives list
Live(room_id, started_at, live_info, room) ==
    [is_dict |-> TRUE, room_id |-> room_id, started_at |-> started_at,
     premium_room_type |-> IntV(0), live_info |-> live_info, room |-> room]

LiveTop == Live(IntV(1), IntV(10), NoObj, NoObj)
LiveNumStr == Live(NumStr(2), IntV(20), NoObj, NoObj)
LiveBadId == Live(Str, IntV(30), NoObj, NoObj)
LiveNoId == Live(None, IntV(40), NoObj, NoObj)
LiveInfo == Live(None, IntV(45), Obj(IntV(3), IntV(50)), NoObj)
LiveRoom == Live(None, None, NoObj, Obj(IntV(4), IntV(60)))
LiveNoStart == Live(IntV(5), None, NoObj, NoObj)
LiveNotDict == [is_dict |-> FALSE, room_id |-> None, started_at |-> None,
                premium_room_type |-> None, live_info |-> NoObj, room |-> NoObj]

LiveEntries == {LiveTop, LiveNumStr, LiveBadId, LiveNoId, LiveInfo, LiveRoom,
                LiveNoStart, LiveNotDict}

\* a key of the body that should hold a list: is_list is FALSE when the key is
\* missing or holds something else
NoList == [is_list |-> FALSE, list |-> <<>>]
List(l) == [is_list |-> TRUE, list |-> l]

\* the genre groups: with a 'lives' list of at most one entry, or without one
GenreGroups == {[lives |-> List(l)] : l \in BoundedSeq(LiveEntries, 1)} \cup {[lives |-> NoList]}

\* what the flat categorical keys may hold
FlatLists == {NoList, List(<<LiveNumStr>>), List(<<LiveBadId, LiveTop>>)}

\* the decoded bodies: an object with the grouping and the flat lists
OnlivesBodies ==
    [is_dict : {TRUE},
     onlives : {List(g) : g \in BoundedSeq(GenreGroups, MaxGroups)} \cup {NoList},
     official_lives : FlatLists, talent_lives : FlatLists, amateur_lives : FlatLists]

\* a body that is not an object (a bare array)
BareBody == [is_dict |-> FALSE, onlives |-> NoList, official_lives |-> NoList,
             talent_lives |-> NoList, amateur_lives |-> NoList]

\* "ok": 200 with a decodable body; "transport": the request raises
\* RequestException; "nonjson": undecodable body (ValueError in every version
\* of requests, caught by one of the two handlers)
OnlivesOutcomes == {"ok", "transport", "nonjson"}

RECURSIVE ExtendGroups(_, _)
\* for genre_group in data['onlives']: if 'lives' is a list: all_lives.extend(...)
ExtendGroups(lives, groups) ==
    IF groups = <<>> THEN lives
    ELSE ExtendGroups(IF Head(groups).lives.is_list
                      THEN lives \o Head(groups).lives.list ELSE lives,
                      Tail(groups))

\* all_lives.extend(data[live_type]) if that key holds a list
ExtendFlat(lives, flat) == IF flat.is_list THEN lives \o flat.list ELSE lives

\* a flattening that reads the per-genre grouping only
FlattenGroupsOnly(data) ==
    IF data.is_dict /\ data.onlives.is_list
    THEN ExtendGroups(<<>>, data.onlives.list) ELSE <<>>

\* lines 195-203: the grouping first, then the three flat lists in fixed order
Flatten(data) ==
    IF ~data.is_dict THEN <<>>
    ELSE ExtendFlat(ExtendFlat(ExtendFlat(
             IF data.onlives.is_list THEN ExtendGroups(<<>>, data.onlives.list) ELSE <<>>,
             data.official_lives), data.talent_lives), data.amateur_lives)

\* lines 205-219: room_id, started_at and premium_room_type of an entry, read
\* at the top level, then under 'live_info', then under 'room'
Probe(room) ==
    LET fields(o) == [room_id |-> o.room_id, started_at |-> o.started_at,
                      premium_room_type |-> o.premium_room_type]
        top == IF room.is_dict
               THEN fields(room)
               ELSE [room_id |-> None, started_at |-> None, premium_room_type |-> IntV(0)]
        second == IF room.is_dict /\ top.room_id = None /\ room.live_info.is_dict
                  THEN fields(room.live_info)
                  ELSE top
    IN IF room.is_dict /\ second.room_id = None /\ room.room.is_dict
       THEN fields(room.room)
       ELSE second

\* if room_id: None, 0 and '' are falsy
Truthy(x) == x.k \in {"numstr", "str"} \/ (x.k = "int" /\ x.v # 0)

\* int(room_id) raises ValueError on a string that is not a number
IntRaises(x) == x.k = "str"

\* int(room_id)
ToInt(x) == x.v

\* the loop goes on with the next entry, or ends after the last one
OlContinue ==
    /\ ol_i' = ol_i + 1
    /\ ol_pc' = IF ol_i < Len(all_lives) THEN "rooms" ELSE "done"

\* a ValueError that reaches the handler of line 227: the loop ends
OlAbortLoop ==
    /\ ol_i' = ol_i
    /\ ol_pc' = "done"

\* except (ValueError, TypeError): continue
OlSkipEntry ==
    /\ ol_i' = ol_i + 1
    /\ ol_pc' = IF ol_i < Len(all_lives) THEN "rooms" ELSE "done"

\* the request and the flattening of its body
OlCall(outcome, data) ==
    /\ ol_pc = "idle"
    /\ ol_outcome' = outcome
    /\ ol_data' = data
    /\ onlives' = <<>>
    /\ ol_i' = 1
    /\ raised' = "none"
    /\ UNCHANGED <<giftVars, rankVars, eventVars, gapVars, cacheVars, pollVars, mainVars>>
    /\ IF outcome = "ok"
       THEN /\ all_lives' = Flatten(data)
            /\ ol_pc' = IF Flatten(data) = <<>> THEN "done" ELSE "rooms"
       ELSE /\ data = BareBody
            /\ all_lives' = <<>>
            /\ ol_pc' = "done"

OlFetch ==
    /\ ol_pc = "idle"
    /\ \E outcome \in OnlivesOutcomes, data \in OnlivesBodies \cup {BareBody} :
          OlCall(outcome, data)

\* one iteration of for room in all_lives
OlRoom ==
    /\ ol_pc = "rooms"
    /\ UNCHANGED <<ol_outcome, ol_data, all_lives, raised,
                   giftVars, rankVars, eventVars, gapVars, cacheVars, pollVars, mainVars>>
    /\ LET found == Probe(all_lives[ol_i])
       IN IF Truthy(found.room_id) /\ found.started_at # None
          THEN IF IntRaises(found.room_id)
               THEN OlSkipEntry /\ UNCHANGED onlives
               ELSE /\ onlives' =
                         [r \in DOMAIN onlives \cup {ToInt(found.room_id)} |->
                             IF r = ToInt(found.room_id)
                             THEN [started_at |-> found.started_at,
                                   premium_room_type |-> found.premium_room_type]
                             ELSE onlives[r]]
                    /\ OlContinue
          ELSE OlContinue /\ UNCHANGED onlives

OnlivesInit ==
    /\ ol_pc = "idle"
    /\ ol_outcome = "none"
    /\ ol_data = BareBody
    /\ all_lives = <<>>
    /\ ol_i = 1
    /\ onlives = <<>>

\* --------------------------------------------------------- main()
\* One step is one run of the script.  get_events is taken to return the same
\* two events on every run; multiselect_key_counter only names the multiselect
\* widget and is left out, the widget's value being an input of the submit.
MainEvents == {"E1", "E2"}

\* what the body of get_event_ranking_with_room_id may return: None, an empty
\* map, or a map with these display names
ResolverOutcomes == {"None", "empty", "A", "AB"}

NoEvent == "none"

\* st.session_state.room_map_data = None (line 253)
UnsetMap == [kind |-> "None", rooms |-> {}, event |-> NoEvent, at |-> 0]

\* the value the body returns for this event when it runs at second t
ResolverReturn(outcome, event, t) ==
    [kind |-> IF outcome = "None" THEN "None" ELSE "map",
     rooms |-> CASE outcome = "A" -> {"A"}
                 [] outcome = "AB" -> {"A", "B"}
                 [] OTHER -> {},
     event |-> event,
     at |-> t]

\* room_map_data is None
IsNone(room_map) == room_map.kind = "None"

\* not room_map_data: None or an empty map
Falsy(room_map) == room_map.kind = "None" \/ room_map.rooms = {}

\* room_options[:10]: the maps here hold fewer than ten rooms
Top10Rooms(room_map) == room_map.rooms

\* the branch of line 298 without the reset of the selection and of
\* show_dashboard (lines 302-308)
EventChangedKeepsSelection(outcome) ==
    LET entry == m_cache[event_selector']
        hit == Fresh(entry, TtlGetEventRanking, m_now')
        value == IF hit THEN entry.value
                 ELSE ResolverReturn(outcome, event_selector', m_now')
    IN /\ hit => outcome = "None"
       /\ m_fetched' = ~hit
       /\ m_cache' = IF hit THEN m_cache
                     ELSE [m_cache EXCEPT ![event_selector'] =
                              [present |-> TRUE, value |-> value, fetched_at |-> m_now']]
       /\ room_map_data' = value
       /\ selected_event_name' = event_selector'
       /\ m_rerun' = TRUE
       /\ m_end' = "rerun_event"
       /\ m_autorefresh' = FALSE
       /\ raised' = "none"
       /\ UNCHANGED <<selected_room_names, multiselect_default_value,
                      select_top_10_checkbox, show_dashboard>>

\* lines 298-309: the resolver is called through st.cache_data, the session
\* state is reset and the script reruns
EventChanged(outcome) ==
    LET entry == m_cache[event_selector']
        hit == Fresh(entry, TtlGetEventRanking, m_now')
        value == IF hit THEN entry.value
                 ELSE ResolverReturn(outcome, event_selector', m_now')
    IN /\ hit => outcome = "None"
       /\ m_fetched' = ~hit
       /\ m_cache' = IF hit THEN m_cache
                     ELSE [m_cache EXCEPT ![event_selector'] =
                              [present |-> TRUE, value |-> value, fetched_at |-> m_now']]
       /\ room_map_data' = value
       /\ selected_event_name' = event_selector'
       /\ selected_room_names' = {}
       /\ multiselect_default_value' = {}
       /\ select_top_10_checkbox' = FALSE
       /\ show_dashboard' = FALSE
       /\ m_rerun' = TRUE
       /\ m_end' = "rerun_event"
       /\ m_autorefresh' = FALSE
       /\ raised' = "none"

\* lines 335-344: the submitted form stores the selection and reruns
Submitted(top_10, selected_room_names_temp) ==
    /\ select_top_10_checkbox' = top_10
    /\ selected_room_names' =
          IF top_10 THEN Top10Rooms(room_map_data) ELSE selected_room_names_temp
    /\ multiselect_default_value' = selected_room_names'
    /\ show_dashboard' = TRUE
    /\ m_rerun' = TRUE
    /\ m_end' = "rerun_submit"
    /\ m_autorefresh' = FALSE
    /\ m_fetched' = FALSE
    /\ raised' = "none"
    /\ UNCHANGED <<m_cache, room_map_data, selected_event_name>>

\* lines 346-358: the dashboard part of a run that did not rerun
Dashboard ==
    /\ m_rerun' = FALSE
    /\ m_fetched' = FALSE
    /\ UNCHANGED <<m_cache, room_map_data, selected_event_name, selected_room_names,
                   multiselect_default_value, select_top_10_checkbox, show_dashboard>>
    /\ IF ~show_dashboard
       THEN m_end' = "form" /\ m_autorefresh' = FALSE /\ raised' = "none"
       ELSE IF selected_room_names = {}
       THEN m_end' = "warn_select_room" /\ m_autorefresh' = FALSE /\ raised' = "none"
       ELSE \* st_autorefresh is mounted, then line 358 reads the undefined all_events
            m_end' = "NameError" /\ m_autorefresh' = TRUE /\ raised' = "NameError"

\* a run of main() from line 266 on; the primed clock and selectbox are those
\* of this run
Script(submit, top_10, selected_room_names_temp, outcome) ==
    IF selected_event_name # event_selector' \/ IsNone(room_map_data)
    THEN /\ ~submit /\ ~top_10 /\ selected_room_names_temp = {}
         /\ EventChanged(outcome)
    ELSE /\ outcome = "None"
         /\ IF Falsy(room_map_data)
            THEN /\ ~submit /\ ~top_10 /\ selected_room_names_temp = {}
                 /\ m_end' = "warn_no_participants"
                 /\ m_rerun' = FALSE
                 /\ m_autorefresh' = FALSE
                 /\ m_fetched' = FALSE
                 /\ raised' = "none"
                 /\ UNCHANGED <<m_cache, room_map_data, selected_event_name,
                                selected_room_names, multiselect_default_value,
                                select_top_10_checkbox, show_dashboard>>
            ELSE IF submit
            THEN Submitted(top_10, selected_room_names_temp)
            ELSE /\ ~top_10 /\ selected_room_names_temp = {}
                 /\ Dashboard

\* the runs st.rerun() and the first page load start
RunAgain ==
    /\ m_rerun \/ m_end = "none"
    /\ UNCHANGED <<m_now, m_ticks, event_selector>>
    /\ \E outcome \in ResolverOutcomes : Script(FALSE, FALSE, {}, outcome)
    /\ UNCHANGED <<giftVars, rankVars, eventVars, gapVars, cacheVars, pollVars,
                   onlivesVars>>

\* the user picks another event in the selectbox
SelectEvent ==
    /\ ~m_rerun /\ m_end # "none"
    /\ \E e \in MainEvents \ {event_selector} : event_selector' = e
    /\ UNCHANGED <<m_now, m_ticks>>
    /\ \E outcome \in ResolverOutcomes : Script(FALSE, FALSE, {}, outcome)
    /\ UNCHANGED <<giftVars, rankVars, eventVars, gapVars, cacheVars, pollVars,
                   onlivesVars>>

\* the user submits the form of lines 322-334, which the last run rendered
SubmitForm ==
    /\ ~m_rerun /\ m_end \in {"form", "warn_select_room", "NameError"}
    /\ UNCHANGED <<m_now, m_ticks, event_selector>>
    /\ \E top_10 \in BOOLEAN, selected_room_names_temp \in SUBSET room_map_data.rooms :
          Script(TRUE, top_10, selected_room_names_temp, "None")
    /\ UNCHANGED <<giftVars, rankVars, eventVars, gapVars, cacheVars, pollVars,
                   onlivesVars>>

\* seconds between two runs: the 7 s of st_autorefresh, or a tick that comes
\* late (the timer of a background tab is held back)
RefreshDelays == {7, 301}

\* st_autorefresh fires and the script runs again
RefreshTick ==
    /\ ~m_rerun /\ m_autorefresh
    /\ m_ticks < MaxTicks
    /\ m_ticks' = m_ticks + 1
    /\ \E d \in RefreshDelays : m_now' = m_now + d
    /\ UNCHANGED event_selector
    /\ \E outcome \in ResolverOutcomes : Script(FALSE, FALSE, {}, outcome)
    /\ UNCHANGED <<giftVars, rankVars, eventVars, gapVars, cacheVars, pollVars,
                   onlivesVars>>

MainInit ==
    /\ m_now = 0
    /\ m_ticks = 0
    /\ m_cache = [e \in MainEvents |-> [present |-> FALSE, value |-> UnsetMap,
                                        fetched_at |-> 0]]
    /\ event_selector = "E1"
    /\ select_top_10_checkbox = FALSE
    /\ room_map_data = UnsetMap
    /\ selected_event_name = NoEvent
    /\ selected_room_names = {}
    /\ multiselect_default_value = {}
    /\ show_dashboard = FALSE
    /\ m_rerun = FALSE
    /\ m_end = "none"
    /\ m_autorefresh = FALSE
    /\ m_fetched = FALSE

GiftInit ==
    /\ gift_log_cache = <<>>
    /\ gl_room = 0
    /\ gl_outcome = "none"
    /\ gl_batch = <<>>
    /\ gl_ret = <<>>

Init ==
    /\ GiftInit
    /\ RankInit
    /\ EventInit
    /\ GapInit
    /\ CacheInit
    /\ PollInit
    /\ OnlivesInit
    /\ MainInit
    /\ raised = "none"

NextGift == GiftLogCall

SpecGift == Init /\ [][NextGift]_vars

NextRank == RkCall \/ RkFetchPage \/ RkAccept \/ RkBuild

SpecRank == Init /\ [][NextRank]_vars

NextEvents == EvCall \/ EvFetchPage

SpecEvents == Init /\ [][NextEvents]_vars

NextGap == GpLoad \/ GpCompute

SpecGap == Init /\ [][NextGap]_vars

NextCache == CacheCall \/ Tick

SpecCache == Init /\ [][NextCache]_vars

NextPoll == PlStart \/ PlFetch

SpecPoll == Init /\ [][NextPoll]_vars

NextOnlives == OlFetch \/ OlRoom

SpecOnlives == Init /\ [][NextOnlives]_vars

NextMain == RunAgain \/ SelectEvent \/ SubmitForm \/ RefreshTick

SpecMain == Init /\ [][NextMain]_vars

\* ---------------------------------------------------------------- claims

EntryA == [gift_id |-> 1, created_at |-> 1, num |-> 1]
EntryB == [gift_id |-> 1, created_at |-> 2, num |-> 1]
EntryC == [gift_id |-> 1, created_at |-> 3, num |-> 1]

\* C1: whatever the candidates answer, the result is built from the first
\* candidate (in list order) whose fetched pages held an entry with a room_id
\* key, no request goes to a later candidate, and when no candidate served
\* such an entry every candidate was tried and the result is None.
C1_FirstIdentifiableCandidateWins ==
    (rk_pc = "done" /\ raised = "none") =>
        LET withId == {c \in Candidates : rk_hadId[c]}
        IN IF withId = {}
           THEN /\ rk_source = 0
                /\ rk_result = NoneResult
                /\ \A c \in Candidates : rk_reqs[c] >= 1
           ELSE LET first == CHOOSE c \in withId : \A d \in withId : c <= d
                IN /\ rk_source = first
                   /\ rk_result.kind = "map"
                   /\ \A c \in Candidates : c > first => rk_reqs[c] = 0

\* C2: after any sequence of get_and_update_gift_log calls, a room's history
\* holds at most one entry per dedup key (gift_id, created_at, num).
C2_OneEntryPerKey ==
    \A r \in DOMAIN gift_log_cache :
        \A i, j \in DOMAIN gift_log_cache[r] :
            i # j => LogKey(gift_log_cache[r][i]) # LogKey(gift_log_cache[r][j])

\* The example of C2 (history of A and B, fresh batch [B, C]) does come out as
\* [C, B, A]: the duplicates arise only inside one batch.
C2_OverlapExample ==
    MergeNewGifts(<<EntryB, EntryA>>, <<EntryB, EntryC>>) = <<EntryC, EntryB, EntryA>>

\* C3: merging the batch of the last successful call a second time leaves the
\* room's history exactly as the first merge left it (same entries, same order).
C3_MergeIdempotent ==
    gl_outcome = "ok" =>
        MergeNewGifts(gift_log_cache[gl_room], gl_batch) = gift_log_cache[gl_room]

\* a merge that appended some entries of its batch and skipped others
C3_Witness ==
    /\ gl_outcome = "ok"
    /\ Len(gl_batch) = 2
    /\ Len(gift_log_cache[gl_room]) = 3
    /\ LogKey(gl_batch[1]) # LogKey(gl_batch[2])

\* C9 (Ranking Resolver): when the request for page k > 1 of a candidate fails
\* with a transport error, the entries of pages 1..k-1 stay accumulated and go
\* on to the acceptance test of that candidate.
C9_FailedPageKeepsEarlierPages ==
    [][(rk_pc = "page" /\ rk_page > 1 /\ rk_outcome' = "transport")
          => (rk_temp' = rk_temp /\ rk_pc' = "accept")]_vars

\* C10: in get_events a failed request (transport error, error status or
\* undecodable body) on any page of a status ends the pagination of that status
\* only: all_events keeps what it held, pagination of the next status starts at
\* its page 1, and what the call returns is everything accumulated.
C10_FailureAbortsOneStatusOnly ==
    [][/\ (ev_pc = "page" /\ ev_outcome' \in {"http", "transport", "nonjson"})
            => /\ all_events' = all_events
               /\ IF ev_status < Len(Statuses)
                  THEN ev_pc' = "page" /\ ev_status' = ev_status + 1 /\ ev_page' = 1
                  ELSE ev_pc' = "done" /\ ev_result' = all_events
       /\ ev_pc = "page"
            => /\ Len(all_events') >= Len(all_events)
               /\ SubSeq(all_events', 1, Len(all_events)) = all_events
       /\ (ev_pc = "page" /\ ev_pc' = "done" /\ raised' = "none")
            => ev_result' = all_events']_vars

\* a call that lost page 2 of the ongoing events to a failure and still
\* returned page 1 of them together with the ended events fetched afterwards
C10_Witness ==
    /\ ev_pc = "done"
    /\ raised = "none"
    /\ ev_failed[1]
    /\ ev_result = all_events
    /\ \E i \in DOMAIN ev_result : ev_result[i].event_name = <<"E1">>
    /\ \E i \in DOMAIN ev_result : ev_result[i].event_name = <<"ENDED", "E1">>

\* C4: with the rows sorted ascending by rank (all rooms in scope), the upper
\* gap of row i is |point[i] - point[i-1]| and the lower gap of row i is
\* |point[i] - point[i+1]|; ranks 1, 2, 3 with points 300, 200, 150 give rank 2
\* an upper gap of 100 and a lower gap of 50.
C4_GapsToAdjacentRanks ==
    (gp_pc = "done" /\ raised = "none" /\ gp_selected = DOMAIN gp_room_map
        /\ WithGaps(gp_selected)) =>
        /\ \A i \in 2..Len(gp_rows) :
              gp_rows[i].upper = Num(Abs(gp_rows[i].point - gp_rows[i - 1].point))
        /\ \A i \in 1..(Len(gp_rows) - 1) :
              gp_rows[i].lower = Num(Abs(gp_rows[i].point - gp_rows[i + 1].point))
        /\ (/\ Len(gp_rows) = 3
            /\ \A i \in 1..3 : gp_rows[i].rank = i
            /\ <<gp_rows[1].point, gp_rows[2].point, gp_rows[3].point>> = <<300, 200, 150>>)
           => (gp_rows[2].upper = Num(100) /\ gp_rows[2].lower = Num(50))

\* C5: in the displayed rows the upper gap is not-applicable exactly for the
\* best-ranked selected row, the lower gap exactly for the worst-ranked selected
\* row, and every other gap is the absolute point difference to the adjacent
\* selected row.
C5_GapsAmongSelectedRooms ==
    (gp_pc = "done" /\ raised = "none" /\ WithGaps(gp_selected)) =>
        /\ Len(gp_rows) = Cardinality(gp_selected)
        /\ \A i \in DOMAIN gp_rows :
              /\ gp_rows[i].upper =
                    IF i = 1 THEN gp_rows[i].upper
                    ELSE Num(Abs(gp_rows[i].point - gp_rows[i - 1].point))
              /\ (i = 1) <=> (gp_rows[i].upper.kind # "num")
              /\ gp_rows[i].lower =
                    IF i = Len(gp_rows) THEN gp_rows[i].lower
                    ELSE Num(Abs(gp_rows[i].point - gp_rows[i + 1].point))
              /\ (i = Len(gp_rows)) <=> (gp_rows[i].lower.kind # "num")

\* a step that is a call of the cached function of this slot
CallStepOn(slot) ==
    /\ now' = now
    /\ c_call'.slot = slot
    /\ <<st_cache, c_call, raised>>' # <<st_cache, c_call, raised>>

\* C6: a call of a cached function made while now - fetched_at < ttl returns the
\* stored value unchanged without running the function body, and a call made
\* once the ttl has elapsed (or with nothing stored) runs the body again and
\* replaces the entry of that key, and of no other, by what the body returned.
C6_ServedWithinTtlRefetchedAfter ==
    [][\A slot \in CacheSlots :
          CallStepOn(slot) =>
              LET entry == st_cache[slot]
              IN IF entry.present /\ now - entry.fetched_at < Ttl(slot[1])
                 THEN /\ ~c_call'.invoked
                      /\ c_call'.ret = entry.value
                      /\ st_cache' = st_cache
                 ELSE /\ c_call'.invoked
                      /\ raised' = "none" =>
                            /\ st_cache'[slot] = [present |-> TRUE, value |-> c_call'.ret,
                                                  fetched_at |-> now]
                            /\ \A other \in CacheSlots \ {slot} :
                                  st_cache'[other] = st_cache[other]]_vars

\* the gift list fetched at t0 is fetched again by a call at t0 + 31 s
C6_Witness ==
    /\ c_call.slot = <<"get_gift_list", 1>>
    /\ c_call.invoked
    /\ c_call.age = 31
    /\ c_call.ret = Data(now)
    /\ st_cache[c_call.slot].fetched_at = now

\* the gift list fetched at t0 is served from the store by a call at t0 + 29 s
C6_HitWitness ==
    /\ c_call.slot = <<"get_gift_list", 1>>
    /\ ~c_call.invoked
    /\ c_call.age = 29
    /\ c_call.ret = Data(now - 29)

\* C7: when the body's upstream request fails on a refresh after an earlier
\* successful fetch of the same key, the call returns the earlier value and the
\* stored entry, fetched_at included, stays as it was.
C7_StaleOnFailure ==
    [][\A slot \in CacheSlots :
          (/\ CallStepOn(slot)
           /\ st_cache[slot].present
           /\ st_cache[slot].value.kind = "data"
           /\ c_call'.invoked
           /\ c_call'.outcome = "fail")
          => (/\ c_call'.ret = st_cache[slot].value
              /\ st_cache'[slot] = st_cache[slot])]_vars

\* the event_id of every entry of a list, in order
EventIds(events) == [i \in DOMAIN events |-> events[i].event_id]

\* C11: the list get_events returns holds no entry whose show_ranking is false
\* and none whose is_event_block is true, and holds every other entry of the
\* fetched pages, in the order the pages of the two statuses delivered them.
C11_HiddenAndBlockEventsDropped ==
    (ev_pc = "done" /\ raised = "none") =>
        /\ \A i \in DOMAIN ev_result :
              ev_result[i].show_ranking # "false" /\ ev_result[i].is_event_block # "true"
        /\ EventIds(ev_result) =
              EventIds(SelectSeq(ev_fetched,
                                 LAMBDA e : e.show_ranking # "false"
                                            /\ e.is_event_block # "true"))

\* a returned list that kept the entries without the two flags and dropped a
\* hidden and a block event that were fetched with them
C11_Witness ==
    /\ ev_pc = "done"
    /\ raised = "none"
    /\ \E i \in DOMAIN ev_fetched : ev_fetched[i].show_ranking = "false"
    /\ \E i \in DOMAIN ev_fetched : ev_fetched[i].is_event_block = "true"
    /\ \E i \in DOMAIN ev_result : ev_result[i].show_ranking = "missing"
    /\ Len(ev_result) >= 2

\* C12: when no candidate's accumulated entries passed the acceptance test
\* (every candidate failed, answered 404, served only empty pages or served
\* entries without a room_id key), the value get_event_ranking_with_room_id
\* returns is None, not an empty map.
C12_NoAcceptedCandidateGivesNone ==
    (rk_pc = "done" /\ raised = "none") =>
        /\ rk_source = 0 => rk_result = NoneResult
        /\ (\A c \in Candidates : ~rk_hadId[c]) => rk_result = NoneResult

\* a call that went through both candidates, the last of them ending on a 404,
\* accepted none and returned None
C12_Witness ==
    /\ rk_pc = "done"
    /\ raised = "none"
    /\ rk_source = 0
    /\ \A c \in Candidates : rk_reqs[c] >= 1 /\ ~rk_hadId[c]
    /\ rk_outcome = "404"
    /\ rk_result = NoneResult

\* times an entry occurs in a list
Occurrences(log, entry) == Cardinality({i \in DOMAIN log : log[i] = entry})

\* C13: across get_and_update_gift_log calls, successful or failed, a room that
\* has a history keeps it, no entry of it is removed and its length never
\* decreases.
C13_HistoryNeverShrinks ==
    [][\A r \in DOMAIN gift_log_cache :
          /\ r \in DOMAIN gift_log_cache'
          /\ Len(gift_log_cache'[r]) >= Len(gift_log_cache[r])
          /\ \A entry \in GiftLogEntry :
                Occurrences(gift_log_cache'[r], entry)
                    >= Occurrences(gift_log_cache[r], entry)]_vars

\* a room whose history of two entries went through a successful call with a
\* batch of one other entry, and then through a failed call
C13_Witness ==
    /\ gl_room \in DOMAIN gift_log_cache
    /\ gl_outcome = "transport"
    /\ Len(gift_log_cache[gl_room]) = 3
    /\ gl_ret = gift_log_cache[gl_room]

\* a list is in descending order of created_at
SortedDesc(log) ==
    \A i, j \in DOMAIN log : i < j => log[i].created_at >= log[j].created_at

\* C14: after every get_and_update_gift_log call the stored history of every
\* room, and the sequence the call returned, is sorted in descending order of
\* created_at.
C14_HistorySortedDescending ==
    /\ \A r \in DOMAIN gift_log_cache : SortedDesc(gift_log_cache[r])
    /\ SortedDesc(gl_ret)

\* a call whose batch came in ascending order and was merged into a history
\* that the call returned in descending order
C14_Witness ==
    /\ gl_outcome = "ok"
    /\ Len(gl_batch) = 2
    /\ gl_batch[1].created_at < gl_batch[2].created_at
    /\ Len(gift_log_cache[gl_room]) = 3
    /\ gl_ret = gift_log_cache[gl_room]

\* C19: in the Ranking Resolver a 404 on page k of a candidate ends that
\* candidate's pagination without an error: the entries of pages 1..k-1 stay
\* accumulated and go to the acceptance test, and when they are not accepted
\* the next candidate is tried.
C19_NotFoundEndsPaginationKeepsPages ==
    [][/\ (rk_pc = "page" /\ rk_outcome' = "404")
            => /\ rk_temp' = rk_temp
               /\ rk_pc' = "accept"
               /\ rk_cand' = rk_cand
               /\ raised' = "none"
       /\ (rk_pc = "accept" /\ rk_outcome = "404")
            => IF \E i \in DOMAIN rk_temp : rk_temp[i].room_id # NoKey
               THEN rk_all' = rk_temp /\ rk_source' = rk_cand /\ rk_pc' = "build"
               ELSE /\ rk_all' = rk_all
                    /\ IF rk_cand < NumCandidates
                       THEN rk_pc' = "page" /\ rk_cand' = rk_cand + 1 /\ rk_page' = 1
                       ELSE rk_pc' = "build"]_vars

\* the first candidate served a page of entries with identifiers, answered 404
\* on page 2, and the result was built from that page
C19_Witness ==
    /\ rk_pc = "done"
    /\ rk_outcome = "404"
    /\ rk_cand = 1
    /\ rk_page = 2
    /\ rk_source = 1
    /\ rk_all = <<RankA, RankB>>
    /\ rk_result.kind = "map"
    /\ DOMAIN rk_result.room_map = {"A", "B"}

\* the first candidate served entries without identifiers and then a 404, and
\* the second candidate was requested
C19_NextCandidateWitness ==
    /\ rk_outcome = "404"
    /\ rk_reqs[1] = 2
    /\ ~rk_hadId[1]
    /\ rk_cand = 2
    /\ rk_pc = "page"

\* the display name of an entry: room_name, or user_name when that is missing
DisplayName(e) == IF e.room_name # "" THEN e.room_name ELSE e.user_name

\* the entry carries both a room identifier and a display name
HasIdAndName(e) == e.room_id # NoKey /\ e.room_id # 0 /\ DisplayName(e) # ""

\* C20: the returned RoomMap has exactly one key per display name among the
\* accepted entries that carry both a room identifier and a display name, and
\* under each name the data of the last such entry in fetch order.
C20_OneKeyPerNameLastWins ==
    (rk_pc = "done" /\ rk_result.kind = "map") =>
        LET room_map == rk_result.room_map
            named(n) == {i \in DOMAIN rk_all :
                            HasIdAndName(rk_all[i]) /\ DisplayName(rk_all[i]) = n}
        IN /\ DOMAIN room_map =
                 {DisplayName(rk_all[i]) : i \in {j \in DOMAIN rk_all : HasIdAndName(rk_all[j])}}
           /\ \A n \in DOMAIN room_map :
                 LET last == CHOOSE i \in named(n) : \A j \in named(n) : j <= i
                 IN room_map[n] = [room_id |-> rk_all[last].room_id,
                                   rank |-> rk_all[last].rank,
                                   point |-> rk_all[last].point]

\* two accepted entries share the display name "A" (one by room_name, one by
\* user_name) and the map holds the later one
C20_Witness ==
    /\ rk_pc = "done"
    /\ rk_result.kind = "map"
    /\ rk_all = <<RankA, RankUserA>>
    /\ DOMAIN rk_result.room_map = {"A"}
    /\ rk_result.room_map["A"].room_id = 3

\* C15: when the points are the "still tallying" marker (event ended, not yet
\* closed), the dashboard block completes with no numeric upper or lower gap in
\* any row and with the tallying notice shown.
C15_TallyingSkipsGaps ==
    (gp_pc = "done" /\ gp_tallying) =>
        /\ raised = "none"
        /\ gp_rows # <<>>
        /\ \A i \in DOMAIN gp_rows :
              gp_rows[i].upper.kind # "num" /\ gp_rows[i].lower.kind # "num"
        /\ TallyingNotice(gp_rows)

\* with one selected room the block does complete with the marker and the notice
C15_SingleRoomCase ==
    gp_pc = "done" /\ gp_tallying /\ raised = "none" /\ TallyingNotice(gp_rows)

\* requests of this cycle that went out for a room
RequestsFor(room_id) == Cardinality({i \in DOMAIN pl_log : pl_log[i].room_id = room_id})

\* C17: when a refresh cycle has gone through the room loop, get_room_event_info
\* was requested exactly once for each selected room, whatever the requests for
\* the rooms before it met.
C17_EachSelectedRoomPolledOnce ==
    pl_pc = "done" =>
        \A i \in DOMAIN pl_names : RequestsFor(PollRoomMap[pl_names[i]].room_id) = 1

\* With the failures get_room_event_info handles (it returns None) the loop
\* does go on: a cycle that ends without an exception has requested every
\* selected room once, in selection order.
C17_HandledFailureSkipsRoomOnly ==
    (pl_pc = "done" /\ raised = "none") =>
        /\ Len(pl_log) = Len(pl_names)
        /\ \A i \in DOMAIN pl_names : pl_log[i].room_id = PollRoomMap[pl_names[i]].room_id

\* a cycle whose first request failed with a transport error and whose second
\* room was still requested
C17_TransportCase ==
    /\ pl_pc = "done"
    /\ raised = "none"
    /\ Len(pl_names) = 2
    /\ pl_log[1].outcome = "transport"
    /\ pl_log[2].outcome = "live"
    /\ pl_shown = {pl_names[2]}

\* the entries of a list value, none when the key does not hold a list
Entries(l) == IF l.is_list THEN l.list ELSE <<>>

RECURSIVE GroupEntries(_)
\* the entries of the 'lives' lists of a sequence of genre groups, in order
GroupEntries(groups) ==
    IF groups = <<>> THEN <<>>
    ELSE Entries(Head(groups).lives) \o GroupEntries(Tail(groups))

\* the first of top level, live_info and room that holds a room_id
Holder(e) ==
    IF ~e.is_dict THEN NoObj
    ELSE IF e.room_id # None THEN e
    ELSE IF e.live_info.is_dict /\ e.live_info.room_id # None THEN e.live_info
    ELSE IF e.room.is_dict THEN e.room
    ELSE IF e.live_info.is_dict THEN e.live_info
    ELSE e

\* the entry has a numeric, non-zero room identifier and a started_at value
Indexable(e) ==
    /\ Holder(e).room_id.k \in {"int", "numstr"}
    /\ Holder(e).room_id.v # 0
    /\ Holder(e).started_at # None

\* C18: get_onlives_rooms flattens the per-genre grouping and the flat lists
\* into one list (groups first, then official, talent, amateur); an entry whose
\* room identifier is missing or not a number is skipped with no error, the
\* entries after it are still indexed, and every key of the returned mapping is
\* the integer room identifier of an entry that had a started_at value.
C18_OnlivesFlattenedBadIdsSkipped ==
    /\ raised = "none"
    /\ (ol_pc # "idle" /\ ol_outcome = "ok" /\ ol_data.is_dict) =>
          (all_lives = GroupEntries(Entries(ol_data.onlives))
                         \o Entries(ol_data.official_lives)
                         \o Entries(ol_data.talent_lives)
                         \o Entries(ol_data.amateur_lives))
    /\ (ol_pc = "done") =>
          (/\ \A r \in DOMAIN onlives :
                 \E i \in DOMAIN all_lives :
                    /\ Indexable(all_lives[i])
                    /\ Holder(all_lives[i]).room_id.v = r
           /\ \A i \in DOMAIN all_lives :
                 Indexable(all_lives[i]) => (Holder(all_lives[i]).room_id.v \in DOMAIN onlives))

\* a call that met an entry with a non-numeric room_id in a flat list and
\* indexed the entries before and after it, nested and flat
C18_Witness ==
    /\ ol_pc = "done"
    /\ ol_outcome = "ok"
    /\ \E i, j, k \in DOMAIN all_lives :
          i < j /\ j < k /\ all_lives[i] = LiveInfo /\ all_lives[j] = LiveBadId
          /\ all_lives[k] = LiveTop
    /\ DOMAIN onlives = {1, 3}

\* C16: the session's room map is rebuilt when the selected event changes, and
\* on a refresh tick that comes once the ttl of 300 s has passed since the map
\* was fetched, the map the run works with comes from a resolver fetch of that
\* run.
C16_RoomMapRebuiltOnChangeAndExpiry ==
    [][/\ (event_selector' # event_selector)
            => (room_map_data'.event = event_selector'
                /\ selected_event_name' = event_selector')
       /\ (/\ m_now' # m_now
           /\ room_map_data.kind = "map"
           /\ m_now' - room_map_data.at >= TtlGetEventRanking)
            => (m_fetched' /\ room_map_data'.at = m_now')]_vars

\* a change of event did rebuild the map, from a fresh fetch for that event
C16_EventChangeRebuilds ==
    /\ event_selector = "E2"
    /\ room_map_data.event = "E2"
    /\ room_map_data.kind = "map"
    /\ room_map_data.at = m_now
    /\ m_now > 300

\* C8: every fetch operation returns a value for every upstream outcome; no
\* exception escapes it.
C8_NoUnhandledException == raised = "none"

\* C21: whatever the resolver returned, None included, the run that follows a
\* rerun triggered by a changed event or a missing room map completes without
\* rerunning, and when the resolver returned None that run ends at the warning
\* that the participants could not be obtained.
C21_OneRerunPerEventChange ==
    [][(m_rerun /\ m_end = "rerun_event")
          => /\ ~m_rerun'
             /\ IsNone(room_map_data) => m_end' = "warn_no_participants"]_vars

\* When the resolver returned a map, empty or not, the next run does complete:
\* at the warning for an empty map, at the form otherwise.
C21_MapResultSettles ==
    [][(m_rerun /\ m_end = "rerun_event" /\ ~IsNone(room_map_data))
          => /\ ~m_rerun'
             /\ m_end' = IF room_map_data.rooms = {} THEN "warn_no_participants"
                         ELSE "form"]_vars

\* the run after a None result took the branch of line 298 again, was served
\* the cached None and asked for another rerun
C21_NoneRerunsAgain ==
    /\ m_rerun
    /\ m_end = "rerun_event"
    /\ IsNone(room_map_data)
    /\ selected_event_name = event_selector
    /\ m_cache[event_selector].present
    /\ ~m_fetched

\* the run after an empty map ended at the warning
C21_EmptyMapWarns ==
    /\ ~m_rerun
    /\ m_end = "warn_no_participants"
    /\ room_map_data.kind = "map"
    /\ room_map_data.rooms = {}

\* C22: in every session state in which the dashboard is shown, the room map
\* of the session is the one of the selected event and every name in
\* selected_room_names is one of its keys, after any sequence of event changes,
\* form submissions (manual or top 10) and refresh ticks.
C22_SelectedRoomsAreMapKeys ==
    show_dashboard =>
        /\ selected_event_name = event_selector
        /\ room_map_data.event = selected_event_name
        /\ selected_room_names \subseteq room_map_data.rooms

\* the dashboard of a second event, reached by an event change, a top-10
\* submission and a refresh tick
C22_Witness ==
    /\ show_dashboard
    /\ event_selector = "E2"
    /\ m_cache["E1"].present
    /\ select_top_10_checkbox
    /\ selected_room_names = {"A", "B"}
    /\ m_ticks >= 1
    /\ m_end = "NameError"

\* C23: get_event_ranking_with_room_id never returns an empty map: whatever the
\* candidates answer, the result of a call that returns is None or a room map
\* with at least one room.
C23_NeverEmptyMap ==
    (rk_pc = "done" /\ raised = "none") =>
        \/ rk_result.kind = "None"
        \/ DOMAIN rk_result.room_map # {}

\* an accepted candidate whose only entry has a room_id key with a null value:
\* the entry is skipped and the map returned is {}
C23_NullIdGivesEmptyMap ==
    /\ rk_pc = "done"
    /\ raised = "none"
    /\ rk_all = <<RankNullId>>
    /\ rk_result.kind = "map"
    /\ DOMAIN rk_result.room_map = {}

\* the same with an entry that has an identifier and no display name
C23_NoNameGivesEmptyMap ==
    /\ rk_pc = "done"
    /\ raised = "none"
    /\ rk_all = <<RankNoName>>
    /\ rk_result.kind = "map"
    /\ DOMAIN rk_result.room_map = {}

\* The result is None exactly when no entries were accepted, and a map that is
\* empty exactly when none of the accepted entries has both a truthy identifier
\* and a display name.
C23_ResultShape ==
    (rk_pc = "done" /\ raised = "none") =>
        /\ rk_result.kind = "None" <=> rk_all = <<>>
        /\ rk_result.kind = "map" =>
              (DOMAIN rk_result.room_map = {}
                  <=> \A i \in DOMAIN rk_all : ~HasIdAndName(rk_all[i]))

====
